---- MODULE Spec2Model ----
(***************************************************************************)
(* A model of polyaxon_schemas: the specification engine of                *)
(* specs/base.py and specs/notebook.py (construction of a specification    *)
(* from raw sources, patch, read) and the loss variant family of           *)
(* ml/losses.py.                                                           *)
(*                                                                         *)
(* A document is a function from section names to values.  The value of    *)
(* `version` is an integer, the value of `kind` a string, and the value of *)
(* every other section a record [t, xs, mul] (see Plain, ForNode,          *)
(* Invalid).  Specification objects live in the heap `objs`: an object's   *)
(* identity is its index.                                                  *)
(***************************************************************************)
EXTENDS Integers, Sequences, FiniteSets, TLC

VARIABLES
    objs,   \* the heap: the specification objects the client holds
    last,   \* the most recent call on the engine and what it returned
    loss    \* the most recent call on the loss family and what it returned

vars == <<objs, last, loss>>

----------------------------------------------------------------------------
(* Bounds of the inputs. *)

\* versions offered to the engine are 0 .. MaxVersionInput
MaxVersionInput == 2
\* sections other than version and kind in a document given to a constructor
MaxExtra == 2
\* top-level keys in a source given to patch
MaxPatchKeys == 1
\* fields in the parameter mapping of a loss selection
MaxParams == 4

----------------------------------------------------------------------------
(* Class constants of BaseSpecification. *)

EXPERIMENT == "experiment"
GROUP == "group"
JOB == "job"
NOTEBOOK == "notebook"
TENSORBOARD == "tensorboard"
\* _BUILD (BUILD below is the section name)
KBUILD == "build"
KINDS == {EXPERIMENT, GROUP, JOB, NOTEBOOK, TENSORBOARD, KBUILD}

\* the value of a class attribute that is None
None == "None"

MAX_VERSION == 1
MIN_VERSION == 1

VERSION == "version"
KIND == "kind"
LOGGING == "logging"
TAGS == "tags"
BACKEND == "backend"
FRAMEWORK == "framework"
HP_TUNING == "hptuning"
DECLARATIONS == "declarations"
ENVIRONMENT == "environment"
RUN == "run"
BUILD == "build"

SECTIONS ==
    << VERSION, KIND, TAGS, BACKEND, FRAMEWORK, ENVIRONMENT, DECLARATIONS,
       LOGGING, HP_TUNING, BUILD, RUN >>

STD_PARSING_SECTIONS == << BACKEND, FRAMEWORK, ENVIRONMENT, LOGGING, TAGS, HP_TUNING >>
\* a catalog in which build is not operator-bearing
OP_PARSING_SECTIONS_RUN_ONLY == << RUN >>
OP_PARSING_SECTIONS == << BUILD, RUN >>

Range(s) == { s[i] : i \in 1..Len(s) }

----------------------------------------------------------------------------
(* The classes.  BuildSpecification (specs/build.py) stands between        *)
(* NotebookSpecification and BaseRunSpecification; it is only a link of    *)
(* the hierarchy here and is never constructed directly.                   *)

BaseSpecification == "BaseSpecification"
BaseRunSpecification == "BaseRunSpecification"
BuildSpecification == "BuildSpecification"
NotebookSpecification == "NotebookSpecification"

\* the classes a client calls
Classes == { BaseSpecification, BaseRunSpecification, NotebookSpecification }

\* the base classes of a class, itself included (what isinstance looks at)
Mro(cls) ==
    CASE cls = BaseSpecification -> { BaseSpecification }
      [] cls = BaseRunSpecification -> { BaseRunSpecification, BaseSpecification }
      [] cls = BuildSpecification ->
            { BuildSpecification, BaseRunSpecification, BaseSpecification }
      [] cls = NotebookSpecification ->
            { NotebookSpecification, BuildSpecification, BaseRunSpecification,
              BaseSpecification }

SPEC_KIND(cls) ==
    CASE cls = BaseSpecification -> None
      [] cls = BaseRunSpecification -> KBUILD
      [] cls = BuildSpecification -> KBUILD
      [] cls = NotebookSpecification -> NOTEBOOK

HEADER_SECTIONS(cls) ==
    IF cls = BaseSpecification
    THEN << VERSION, KIND, LOGGING, TAGS >>
    ELSE << VERSION, KIND, LOGGING, TAGS >> \o << BACKEND >>

\* a contract that requires a section the class cannot hold
REQUIRED_SECTIONS_with_run(cls) == << VERSION, KIND, RUN >>

REQUIRED_SECTIONS(cls) == << VERSION, KIND >>

POSSIBLE_SECTIONS(cls) ==
    IF cls = BaseSpecification
    THEN << VERSION, KIND, LOGGING, TAGS >>
    ELSE << VERSION, KIND, LOGGING, TAGS >> \o << ENVIRONMENT, BUILD, BACKEND >>

\* whether the class declares a typed result type (CONFIG is not None)
CONFIG(cls) == cls \in { BuildSpecification, NotebookSpecification }

----------------------------------------------------------------------------
(* Section values. *)

Plain(n) == [t |-> "plain", xs |-> << n >>, mul |-> 0]
\* a For operator: the body is the bound element times mul
ForNode(xs, mul) == [t |-> "for", xs |-> xs, mul |-> mul]
List(xs) == [t |-> "list", xs |-> xs, mul |-> 0]
\* a value its section's schema rejects
Invalid == [t |-> "invalid", xs |-> << >>, mul |-> 0]

EmptyDoc == [k \in {} |-> 0]

----------------------------------------------------------------------------
(* Errors.  The code raises PolyaxonfileError or PolyaxonConfigurationError *)
(* with a message; `err` names the message and `key` the section (or the    *)
(* header value) the message is formatted with.                             *)

NoError == [err |-> "", key |-> ""]
Error(e, k) == [err |-> e, key |-> k]

MISSING_VERSION == "missing_version"
UNSUPPORTED_VERSION == "unsupported_version"
MISSING_KIND == "missing_kind"
UNSUPPORTED_KIND == "unsupported_kind"
KIND_MISMATCH == "kind_mismatch"
UNEXPECTED_SECTION == "unexpected_section"
UNSUPPORTED_SECTION == "unsupported_section"
MISSING_REQUIRED == "missing_required_section"
CONFIGURATION_ERROR == "configuration_error"
VALIDATION_ERROR == "validation_error"

----------------------------------------------------------------------------
(* The header and section checks. *)

\* check_version with the lower bound off by one
check_version_lenient(cls, data) ==
    IF VERSION \notin DOMAIN data
    THEN Error(MISSING_VERSION, VERSION)
    ELSE IF ~(MIN_VERSION - 1 <= data[VERSION] /\ data[VERSION] <= MAX_VERSION)
         THEN Error(UNSUPPORTED_VERSION, VERSION)
         ELSE NoError

check_version(cls, data) ==
    IF VERSION \notin DOMAIN data
    THEN Error(MISSING_VERSION, VERSION)
    ELSE IF ~(MIN_VERSION <= data[VERSION] /\ data[VERSION] <= MAX_VERSION)
         THEN Error(UNSUPPORTED_VERSION, VERSION)
         ELSE NoError

\* check_kind without the test against the closed set
check_kind_any(cls, data) ==
    IF KIND \notin DOMAIN data
    THEN Error(MISSING_KIND, KIND)
    ELSE NoError

check_kind(cls, data) ==
    IF KIND \notin DOMAIN data
    THEN Error(MISSING_KIND, KIND)
    ELSE IF data[KIND] \notin KINDS
         THEN Error(UNSUPPORTED_KIND, data[KIND])
         ELSE NoError

\* the first element of the sequence s that is not in the set S (s has one)
FirstNotIn(s, S) ==
    s[CHOOSE i \in 1..Len(s) :
        /\ s[i] \notin S
        /\ \A j \in 1..(i - 1) : s[j] \in S]

\* the kind check lost
kind_match_never(cls, data) == NoError

\* the instance's kind check of check_data
kind_match(cls, data) ==
    IF data[KIND] # SPEC_KIND(cls)
    THEN Error(KIND_MISMATCH, data[KIND])
    ELSE NoError

\* the section loops with the first one lost
section_legality_one_loop(cls, data) ==
    { Error(UNSUPPORTED_SECTION, key) :
        key \in DOMAIN data \ Range(POSSIBLE_SECTIONS(cls)) }

(* The two section loops of check_data: the errors they can raise, none    *)
(* when both pass.  Each loop iterates over a set difference and raises at *)
(* the first key the iteration yields: any key of the difference can be    *)
(* the one.                                                                *)
section_legality(cls, data) ==
    LET unexpected == DOMAIN data \ Range(SECTIONS)
        unsupported == DOMAIN data \ Range(POSSIBLE_SECTIONS(cls))
    IN  IF unexpected # {}
        THEN { Error(UNEXPECTED_SECTION, key) : key \in unexpected }
        ELSE { Error(UNSUPPORTED_SECTION, key) : key \in unsupported }

\* the required-section loop of check_data, in the order of REQUIRED_SECTIONS
required_sections(cls, data) ==
    LET required == REQUIRED_SECTIONS(cls)
    IN  IF \E i \in 1..Len(required) : required[i] \notin DOMAIN data
        THEN Error(MISSING_REQUIRED, FirstNotIn(required, DOMAIN data))
        ELSE NoError

\* check_data with the section loops run before the header checks
check_data_shape_first(cls, self_data, has_arg, arg) ==
    LET data == IF has_arg /\ DOMAIN arg # {} THEN arg ELSE self_data
        v == check_version(cls, data)
        k == check_kind(cls, data)
    IN  IF section_legality(cls, data) # {} THEN section_legality(cls, data)
        ELSE IF v.err # "" THEN { v }
        ELSE IF k.err # "" THEN { k }
        ELSE IF kind_match(cls, data).err # "" THEN { kind_match(cls, data) }
        ELSE { required_sections(cls, data) }

(* check_data(self, data=None): the set of errors the call can end with,   *)
(* {NoError} when it returns.  has_arg says whether data was passed.       *)
check_data(cls, self_data, has_arg, arg) ==
    LET data == IF has_arg /\ DOMAIN arg # {} THEN arg ELSE self_data
        v == check_version(cls, data)
        k == check_kind(cls, data)
    IN  IF v.err # "" THEN { v }
        ELSE IF k.err # "" THEN { k }
        ELSE IF kind_match(cls, data).err # "" THEN { kind_match(cls, data) }
        ELSE IF section_legality(cls, data) # {} THEN section_legality(cls, data)
        ELSE { required_sections(cls, data) }

----------------------------------------------------------------------------
(* Sources and their merge (rhea.read).  A source is a mapping, something   *)
(* that cannot be read as a mapping (a path to no file, a number), or a     *)
(* specification object handed in as a value.                               *)

Mapping(doc) == [kind |-> "mapping", doc |-> doc, ref |-> 0]
Unreadable == [kind |-> "unreadable", doc |-> EmptyDoc, ref |-> 0]
SpecObject(i) == [kind |-> "spec", doc |-> EmptyDoc, ref |-> i]

Restrict(f, S) == [k \in (DOMAIN f) \cap S |-> f[k]]

\* b's top-level keys override a's
Override(a, b) ==
    [k \in (DOMAIN a) \cup (DOMAIN b) |-> IF k \in DOMAIN b THEN b[k] ELSE a[k]]

RECURSIVE MergeDocs(_)
MergeDocs(values) ==
    IF Len(values) = 0 THEN EmptyDoc
    ELSE Override(MergeDocs(SubSeq(values, 1, Len(values) - 1)),
                  values[Len(values)].doc)

\* whether rhea.read raises RheaError on the source list
MergeFails(values) == \E i \in 1..Len(values) : values[i].kind # "mapping"

----------------------------------------------------------------------------
(* Headers, parsing and validation (specs/libs/parser.py and validator.py). *)

get_headers(cls, data) == Restrict(data, Range(HEADER_SECTIONS(cls)))

IsSectionValue(k) == k \notin { VERSION, KIND }

\* validate_headers raises ValidationError on a header section its schema rejects
HeadersInvalid(headers) ==
    \E k \in DOMAIN headers : IsSectionValue(k) /\ headers[k].t = "invalid"

\* a For operator expands to one resolved body per element, in order
Expand(val) ==
    IF val.t = "for"
    THEN List([i \in 1..Len(val.xs) |-> val.xs[i] * val.mul])
    ELSE val

\* Parser.parse: the operator-bearing sections are expanded, the others kept
Parse(cls, data) ==
    [k \in DOMAIN data |->
        IF k \in Range(OP_PARSING_SECTIONS) THEN Expand(data[k]) ELSE data[k]]

\* CONFIG.from_dict and validator.validate reject a section its schema rejects
SectionsInvalid(parsed_data) ==
    \E k \in DOMAIN parsed_data : IsSectionValue(k) /\ parsed_data[k].t = "invalid"

\* BuildSpecification._extra_validation: a build section must be there
BuildExtraValidationFails(parsed_data) == BUILD \notin DOMAIN parsed_data

\* _extra_validation, by class
extra_validation(cls, parsed_data) ==
    IF cls = NotebookSpecification /\ BuildExtraValidationFails(parsed_data)
    THEN Error(CONFIGURATION_ERROR, BUILD)
    ELSE NoError

----------------------------------------------------------------------------
(* Specification objects and __init__. *)

NoConfig == [set |-> FALSE, data |-> EmptyDoc, shared |-> FALSE]

NoObject ==
    [cls |-> "", values |-> << >>, data |-> EmptyDoc, headers |-> EmptyDoc,
     parsed_data |-> EmptyDoc, validated |-> FALSE, config |-> NoConfig]

Failure(e, stages) == [err |-> e.err, key |-> e.key, stages |-> stages, obj |-> NoObject]

\* a config that holds the very mapping parsed_data names
set_config_shared(cls, parsed_data) == [set |-> TRUE, data |-> parsed_data, shared |-> TRUE]

\* _set_config: the config is built from a deep copy of the parsed sections;
\* shared says whether the config holds the mapping itself rather than a copy
set_config(cls, parsed_data) == [set |-> TRUE, data |-> parsed_data, shared |-> FALSE]

\* a constructor that validates the header sections before the shape check
init_headers_first(cls, values) ==
    IF MergeFails(values)
    THEN { Failure(Error(CONFIGURATION_ERROR, ""), << >>) }
    ELSE
    LET data == MergeDocs(values)
        headers == get_headers(cls, data)
        parsed_data == Parse(cls, data)
        extra == extra_validation(cls, parsed_data)
        built == [cls |-> cls, values |-> values, data |-> data,
                  headers |-> headers, parsed_data |-> parsed_data,
                  validated |-> ~CONFIG(cls),
                  config |-> IF CONFIG(cls) THEN set_config(cls, parsed_data)
                             ELSE NoConfig]
        s1 == << "Merged" >>
        s2 == s1 \o << "HeaderChecked" >>
        s3 == s2 \o << "ShapeChecked" >>
        s4 == s3 \o << "HeadersValidated" >>
        s5 == s4 \o << "SectionsParsed" >>
        s6 == s5 \o << IF CONFIG(cls) THEN "ConfigBuilt" ELSE "SectionsValidated" >>
        s7 == s6 \o << "Resolved" >>
        After(e) ==
            IF e.err \in { MISSING_VERSION, UNSUPPORTED_VERSION, MISSING_KIND,
                           UNSUPPORTED_KIND, KIND_MISMATCH }
            THEN Failure(e, s1)
            ELSE IF HeadersInvalid(headers)
                 THEN Failure(Error(CONFIGURATION_ERROR, ""), s3)
            ELSE IF e.err # ""
                 THEN Failure(e, s2)
            ELSE IF SectionsInvalid(parsed_data)
                 THEN Failure(Error(VALIDATION_ERROR, ""), s5)
            ELSE IF extra.err # ""
                 THEN Failure(extra, s6)
            ELSE [err |-> "", key |-> "", stages |-> s7, obj |-> built]
    IN  { After(e) : e \in check_data(cls, data, FALSE, EmptyDoc) }

(* BaseSpecification.__init__(self, values): the set of ways the call can   *)
(* end.  An outcome holds the error raised ("" when the object is built),   *)
(* the stages completed, in order, and the object built.                    *)
init(cls, values) ==
    IF MergeFails(values)
    THEN { Failure(Error(CONFIGURATION_ERROR, ""), << >>) }
    ELSE
    LET data == MergeDocs(values)
        headers == get_headers(cls, data)
        parsed_data == Parse(cls, data)
        extra == extra_validation(cls, parsed_data)
        headerErrors == { MISSING_VERSION, UNSUPPORTED_VERSION, MISSING_KIND,
                          UNSUPPORTED_KIND, KIND_MISMATCH }
        built == [cls |-> cls, values |-> values, data |-> data,
                  headers |-> headers, parsed_data |-> parsed_data,
                  validated |-> ~CONFIG(cls),
                  config |-> IF CONFIG(cls) THEN set_config(cls, parsed_data)
                             ELSE NoConfig]
        s1 == << "Merged" >>
        s2 == s1 \o << "HeaderChecked" >>
        s3 == s2 \o << "ShapeChecked" >>
        s4 == s3 \o << "HeadersValidated" >>
        s5 == s4 \o << "SectionsParsed" >>
        s6 == s5 \o << IF CONFIG(cls) THEN "ConfigBuilt" ELSE "SectionsValidated" >>
        s7 == s6 \o << "Resolved" >>
        After(e) ==
            IF e.err # ""
            THEN Failure(e, IF e.err \in headerErrors THEN s1 ELSE s2)
            ELSE IF HeadersInvalid(headers)
                 THEN Failure(Error(CONFIGURATION_ERROR, ""), s3)
            ELSE IF SectionsInvalid(parsed_data)
                 THEN Failure(Error(VALIDATION_ERROR, ""), s5)
            ELSE IF extra.err # ""
                 THEN Failure(extra, s6)
            ELSE [err |-> "", key |-> "", stages |-> s7, obj |-> built]
    IN  { After(e) : e \in check_data(cls, data, FALSE, EmptyDoc) }

\* isinstance taken for a test of the exact class
isinstance_exact(c, cls) == c = cls

\* isinstance(values, cls), for a value that is an object of class c
isinstance(c, cls) == cls \in Mro(c)

----------------------------------------------------------------------------
(* The inputs. *)

UnknownKeys == { "foo", "bar" }
AllKeys == Range(SECTIONS) \cup UnknownKeys
ExtraKeys == AllKeys \ { VERSION, KIND }

\* the iterable and the body of the For operator offered in build and run
ForInput == ForNode(<< 1, 2, 3 >>, 10)

ValuesOf(k) ==
    CASE k = VERSION -> 0..MaxVersionInput
      [] k = KIND -> KINDS \cup { "other" }
      [] k = TAGS -> { Plain(1), Plain(2), Invalid }
      [] k = BUILD -> { Plain(1), Plain(2), ForInput, Invalid }
      [] k = RUN -> { Plain(1), ForInput }
      [] k = ENVIRONMENT -> { Plain(1), ForInput }
      [] OTHER -> { Plain(1) }

Extend(d, k, v) == [x \in (DOMAIN d) \cup { k } |-> IF x = k THEN v ELSE d[x]]

\* the documents whose keys are exactly S
RECURSIVE DocsOver(_)
DocsOver(S) ==
    IF S = {} THEN { EmptyDoc }
    ELSE LET k == CHOOSE x \in S : TRUE
         IN  { Extend(d, k, v) : d \in DocsOver(S \ { k }), v \in ValuesOf(k) }

KeySets(n, K) == { S \in SUBSET K : Cardinality(S) <= n }

ConstructDocs ==
    UNION { DocsOver(H \cup E) :
                H \in SUBSET { VERSION, KIND }, E \in KeySets(MaxExtra, ExtraKeys) }
        \ { EmptyDoc }

\* the keys a source given to patch draws from
PatchKeys == { VERSION, KIND, TAGS, BUILD, RUN, "foo" }

PatchDocs == UNION { DocsOver(S) : S \in KeySets(MaxPatchKeys, PatchKeys) } \ { EmptyDoc }

\* the documents given to read: a header, no other section
ReadDocs == UNION { DocsOver(H) : H \in SUBSET { VERSION, KIND } } \ { EmptyDoc }

ConstructSources == { Mapping(d) : d \in ConstructDocs } \cup { Unreadable }
PatchSources == { Mapping(d) : d \in PatchDocs } \cup { Unreadable }
ReadSources == { Mapping(d) : d \in ReadDocs } \cup { Unreadable }

\* the documents given to check_data: the empty mapping, headers, one section
CheckDocs ==
    { EmptyDoc } \cup ReadDocs
        \cup { Extend(d, k, Plain(1)) : d \in ReadDocs, k \in { BUILD, RUN, "foo" } }

\* the value the client writes into a mapping it was handed
TouchValue == Plain(0 - 1)

----------------------------------------------------------------------------
(* Calls on the heap.  A call's result holds the heap after it, the error   *)
(* raised ("" when it returns), the object returned (ret, an index of the   *)
(* heap) and whether that object was built by the call (fresh).             *)
(*                                                                          *)
(* The client holds the specification it built first (slot 1) and the       *)
(* latest other specification a call handed back (slot 2): a new object     *)
(* takes the first free slot, or slot 2 again once the client lets go of    *)
(* the object that was there.                                               *)

Slot(heap) == IF heap = << >> THEN 1 ELSE 2
Store(heap, obj) == IF heap = << >> THEN << obj >> ELSE << heap[1], obj >>

\* cls(values) run on the heap
construct(heap, cls, values) ==
    { [objs |-> IF o.err = "" THEN Store(heap, o.obj) ELSE heap,
       values |-> values, err |-> o.err, key |-> o.key, stages |-> o.stages,
       ret |-> IF o.err = "" THEN Slot(heap) ELSE 0,
       fresh |-> o.err = ""] : o \in init(cls, values) }

\* cls.read(values): value is one source, possibly a specification object
read(heap, cls, value) ==
    IF value.kind = "spec" /\ isinstance(heap[value.ref].cls, cls)
    THEN { [objs |-> heap, values |-> << >>, err |-> "", key |-> "",
            stages |-> << >>, ret |-> value.ref, fresh |-> FALSE] }
    ELSE construct(heap, cls, << value >>)

\* patch re-initialising self instead of building another instance
patch_in_place(heap, self, B) ==
    { [r EXCEPT !.objs = IF r.err = "" THEN [heap EXCEPT ![self] = r.objs[r.ret]]
                                       ELSE heap,
                !.ret = IF r.err = "" THEN self ELSE 0] :
        r \in construct(heap, heap[self].cls,
                        << Mapping(heap[self].parsed_data) >> \o B) }

\* self.patch(values): self is an index of the heap, B the list to_list(values)
patch(heap, self, B) ==
    construct(heap, heap[self].cls, << Mapping(heap[self].parsed_data) >> \o B)

----------------------------------------------------------------------------
(* create_specification.  The build configuration handed in is a typed     *)
(* BuildConfig, a raw mapping, or a value of another type; kind says       *)
(* which, val is its content.                                              *)

\* a typed BuildConfig
BuildConfig(n) == [t |-> "config", xs |-> << n >>, mul |-> 0]
\* a raw build mapping holding attributes BuildConfig does not declare
Extra(n) == [t |-> "extra", xs |-> << n >>, mul |-> 0]

\* whether BuildConfig.from_dict(val, unknown=EXCLUDE) raises
from_dict_fails(val) == val.t \notin { "plain", "extra" }
\* BuildConfig.from_dict(val, unknown=EXCLUDE): the extra attributes are dropped
from_dict(val) == BuildConfig(val.xs[1])
\* BuildConfig.to_light_dict: the minimal raw form
to_light_dict(config) == Plain(config.xs[1])

\* the classes create_specification is called on
RunClasses == { cls \in Classes : BaseRunSpecification \in Mro(cls) }

BuildInputs ==
    { [kind |-> "config", val |-> BuildConfig(1)],
      [kind |-> "config", val |-> BuildConfig(2)],
      [kind |-> "mapping", val |-> Plain(1)],
      [kind |-> "mapping", val |-> Extra(2)],
      [kind |-> "mapping", val |-> Invalid],
      [kind |-> "other", val |-> List(<< 1 >>)] }

\* a document bound to the build kind whatever the class
specification_build_kind(cls, b_config) ==
    [k \in { VERSION, KIND, BUILD } |->
        CASE k = VERSION -> 1
          [] k = KIND -> KBUILD
          [] k = BUILD -> b_config]

\* the document create_specification wraps the build section in
specification(cls, b_config) ==
    [k \in { VERSION, KIND, BUILD } |->
        CASE k = VERSION -> 1
          [] k = KIND -> SPEC_KIND(cls)
          [] k = BUILD -> b_config]

\* the result of a call that raises before any document is made
Raised(heap, e) ==
    [objs |-> heap, values |-> << >>, err |-> e, key |-> "", stages |-> << >>,
     ret |-> 0, fresh |-> FALSE, doc |-> EmptyDoc]

\* cls.create_specification(build_config, to_dict)
create_specification(heap, cls, build_config, to_dict) ==
    IF build_config.kind \notin { "config", "mapping" }
    THEN { Raised(heap, CONFIGURATION_ERROR) }
    ELSE IF build_config.kind = "mapping" /\ from_dict_fails(build_config.val)
    THEN { Raised(heap, VALIDATION_ERROR) }
    ELSE LET config == IF build_config.kind = "config" THEN build_config.val
                       ELSE from_dict(build_config.val)
             doc == specification(cls, to_light_dict(config))
         IN  IF to_dict
             THEN { [Raised(heap, "") EXCEPT !.doc = doc] }
             ELSE { [objs |-> r.objs, values |-> r.values, err |-> r.err,
                     key |-> r.key, stages |-> r.stages, ret |-> r.ret,
                     fresh |-> r.fresh, doc |-> doc] :
                        r \in read(heap, cls, Mapping(doc)) }

----------------------------------------------------------------------------
(* The state machine of the engine. *)

\* no build configuration handed in
NoInput == [kind |-> "", val |-> Invalid, to_dict |-> FALSE]

NoCall ==
    [op |-> "none", cls |-> "", values |-> << >>, arg |-> 0,
     err |-> "", key |-> "", stages |-> << >>, ret |-> 0, fresh |-> FALSE,
     input |-> NoInput, doc |-> EmptyDoc]

\* no raw selection
NoRaw == [form |-> "", id |-> "", params |-> [f \in {} |-> 0]]

NoLoss ==
    [op |-> "none", form |-> "", id |-> "", params |-> [f \in {} |-> 0],
     err |-> "", field |-> "", config |-> "", fields |-> [f \in {} |-> 0],
     out |-> NoRaw]

Init ==
    /\ objs = << >>
    /\ last = NoCall
    /\ loss = NoLoss

Call(op, cls, arg, r) ==
    [op |-> op, cls |-> cls, values |-> r.values, arg |-> arg, err |-> r.err,
     key |-> r.key, stages |-> r.stages, ret |-> r.ret, fresh |-> r.fresh,
     input |-> NoInput, doc |-> EmptyDoc]

\* cls(values)
Construct(cls, src) ==
    /\ \E r \in construct(objs, cls, << src >>) :
        /\ objs' = r.objs
        /\ last' = Call("construct", cls, 0, r)
    /\ UNCHANGED loss

\* cls.read(document)
ReadDocument(cls, src) ==
    /\ \E r \in read(objs, cls, src) :
        /\ objs' = r.objs
        /\ last' = Call("read", cls, 0, r)
    /\ UNCHANGED loss

\* cls.read(objs[i])
ReadObject(cls, i) ==
    /\ \E r \in read(objs, cls, SpecObject(i)) :
        /\ objs' = r.objs
        /\ last' = Call("read", cls, i, r)
    /\ UNCHANGED loss

\* objs[i].patch(src); the client has let go of what it derived before
Patch(i, src) ==
    /\ \E r \in patch(SubSeq(objs, 1, i), i, << src >>) :
        /\ objs' = r.objs
        /\ last' = Call("patch", objs[i].cls, i, r)
    /\ UNCHANGED loss

\* cls.create_specification(build_config, to_dict)
CreateSpecification(cls, build_config, to_dict) ==
    /\ \E r \in create_specification(objs, cls, build_config, to_dict) :
        /\ objs' = r.objs
        /\ last' = [Call("create_specification", cls, 0, r) EXCEPT
                        !.input = [kind |-> build_config.kind, val |-> build_config.val,
                                   to_dict |-> to_dict],
                        !.doc = r.doc]
    /\ UNCHANGED loss

\* the client's first call wraps a build configuration
Wrap ==
    /\ last = NoCall
    /\ \E cls \in RunClasses, build_config \in BuildInputs, to_dict \in BOOLEAN :
            CreateSpecification(cls, build_config, to_dict)

\* the client's first call builds a specification
Create ==
    /\ last = NoCall
    /\ \/ \E cls \in Classes, src \in ConstructSources : Construct(cls, src)
       \/ \E cls \in Classes, src \in ReadSources : ReadDocument(cls, src)

\* the client derives specifications from the one it built, as long as its
\* calls hand it a new specification
Derive ==
    /\ objs # << >>
    /\ last.fresh
    /\ \E src \in PatchSources : Patch(1, src)

(* The client changes, in place, a mapping the specification it built     *)
(* handed out: the parsed sections (target "parsed_data") or the mapping   *)
(* the config was built from (target "config").  A change to a mapping     *)
(* shows in every field that holds that same mapping.                      *)
Mutate(i, target, k, v) ==
    LET o == objs[i]
        parsed_data == IF target = "parsed_data" \/ o.config.shared
                       THEN Extend(o.parsed_data, k, v) ELSE o.parsed_data
        config == IF o.config.set /\ (target = "config" \/ o.config.shared)
                  THEN [o.config EXCEPT !.data = Extend(o.config.data, k, v)]
                  ELSE o.config
    IN  /\ target = "config" => o.config.set
        /\ objs' = [objs EXCEPT ![i] = [o EXCEPT !.parsed_data = parsed_data,
                                                 !.config = config]]
        /\ last' = [NoCall EXCEPT !.op = "mutate", !.cls = o.cls, !.arg = i,
                                  !.key = target]
        /\ UNCHANGED loss

\* the client changes a mapping of the specification it has just built
Touch ==
    /\ Len(objs) = 1
    /\ last.fresh
    /\ \E target \in { "parsed_data", "config" } : Mutate(1, target, TAGS, TouchValue)

\* objs[i].check_data(data), or objs[i].check_data() when has_arg is false
CheckData(i, has_arg, data) ==
    /\ \E e \in check_data(objs[i].cls, objs[i].data, has_arg, data) :
        last' = [NoCall EXCEPT !.op = "check_data", !.cls = objs[i].cls, !.arg = i,
                               !.err = e.err, !.key = e.key,
                               !.input = [NoInput EXCEPT
                                            !.kind = IF has_arg THEN "data" ELSE "none"],
                               !.doc = data]
    /\ UNCHANGED << objs, loss >>

\* the client has the specification it has just built check a document
Recheck ==
    /\ Len(objs) = 1
    /\ last.fresh
    /\ \/ \E data \in CheckDocs : CheckData(1, TRUE, data)
       \/ CheckData(1, FALSE, EmptyDoc)

\* the client reads back a specification it holds
ReadBack ==
    /\ objs # << >>
    /\ \E cls \in Classes, i \in 1..Len(objs) : ReadObject(cls, i)

Next ==
    \/ Create
    \/ Wrap
    \/ Derive
    \/ Touch
    \/ Recheck
    \/ ReadBack

Spec == Init /\ [][Next]_vars

----------------------------------------------------------------------------
(* The loss variant family (ml/losses.py).  A field value is a record      *)
(* [t, n, s]: None, a number, a boolean or a string.  Floats are counted   *)
(* in units of 1e-7, so that 1e-7 is 1 and 1.0 is One.                     *)

NoneV == [t |-> "none", n |-> 0, s |-> ""]
Num(n) == [t |-> "num", n |-> n, s |-> ""]
Bool(b) == [t |-> "bool", n |-> IF b THEN 1 ELSE 0, s |-> ""]
Str(x) == [t |-> "str", n |-> 0, s |-> x]

Tenths(n) == n * 1000000
One == Tenths(10)

AbsoluteDifferenceConfig == "AbsoluteDifferenceConfig"
MeanSquaredErrorConfig == "MeanSquaredErrorConfig"
LogLossConfig == "LogLossConfig"
HuberLossConfig == "HuberLossConfig"
ClippedDeltaLossConfig == "ClippedDeltaLossConfig"
SoftmaxCrossEntropyConfig == "SoftmaxCrossEntropyConfig"
SigmoidCrossEntropyConfig == "SigmoidCrossEntropyConfig"
HingeLossConfig == "HingeLossConfig"
CosineDistanceConfig == "CosineDistanceConfig"
PoissonLossConfig == "PoissonLossConfig"
KullbackLeiberDivergenceConfig == "KullbackLeiberDivergenceConfig"

\* the IDENTIFIER of a config class
IDENTIFIER(config) ==
    CASE config = AbsoluteDifferenceConfig -> "AbsoluteDifference"
      [] config = MeanSquaredErrorConfig -> "MeanSquaredError"
      [] config = LogLossConfig -> "LogLoss"
      [] config = HuberLossConfig -> "HuberLoss"
      [] config = ClippedDeltaLossConfig -> "ClippedDeltaLoss"
      [] config = SoftmaxCrossEntropyConfig -> "SoftmaxCrossEntropy"
      [] config = SigmoidCrossEntropyConfig -> "SigmoidCrossEntropy"
      [] config = HingeLossConfig -> "HingeLoss"
      [] config = CosineDistanceConfig -> "CosineDistance"
      [] config = PoissonLossConfig -> "PoissonLoss"
      [] config = KullbackLeiberDivergenceConfig -> "KullbackLeiberDivergence"

\* the classes LossSchema.__configs__ registers, each under its IDENTIFIER
RegisteredConfigs ==
    { AbsoluteDifferenceConfig, MeanSquaredErrorConfig, LogLossConfig,
      HuberLossConfig, ClippedDeltaLossConfig, SoftmaxCrossEntropyConfig,
      SigmoidCrossEntropyConfig, HingeLossConfig, CosineDistanceConfig,
      KullbackLeiberDivergenceConfig }

\* LossSchema.__configs__
configs == [id \in { IDENTIFIER(c) : c \in RegisteredConfigs } |->
                CHOOSE c \in RegisteredConfigs : IDENTIFIER(c) = id]

\* BaseLossSchema: the fields every loss schema declares
BaseLossFields == { "input_layer", "output_layer", "weights", "name", "collect" }

\* the fields a loss schema adds to BaseLossSchema
OwnFields(config) ==
    CASE config = LogLossConfig -> { "epsilon" }
      [] config = HuberLossConfig -> { "clip" }
      [] config = ClippedDeltaLossConfig -> { "clip_value_min", "clip_value_max" }
      [] config = SoftmaxCrossEntropyConfig -> { "label_smoothing" }
      [] config = SigmoidCrossEntropyConfig -> { "label_smoothing" }
      [] config = CosineDistanceConfig -> { "dim" }
      [] config = KullbackLeiberDivergenceConfig -> { "dim" }
      [] OTHER -> {}

SchemaFields(config) == BaseLossFields \cup OwnFields(config)

\* the `missing` value of the schema fields that declare one
SchemaMissing(config, f) ==
    CASE f = "weights" -> Num(One)
      [] f = "collect" -> Bool(TRUE)
      [] f = "epsilon" -> Num(1)
      [] f = "clip" -> Num(0)
      [] f = "clip_value_min" -> Num(0 - One)
      [] f = "clip_value_max" -> Num(0 - One)
      [] f = "label_smoothing" -> Num(0)

HasMissing(config, f) == f \notin { "input_layer", "output_layer", "name", "dim" }

\* the fields declared with allow_none=True
AllowNone(f) == f \in { "input_layer", "output_layer", "name" }

\* whether the field's type deserializes the value
FieldAccepts(f, v) ==
    CASE v.t = "none" -> AllowNone(f)
      [] f \in { "input_layer", "output_layer", "name" } -> v.t = "str"
      [] f = "collect" -> v.t = "bool"
      [] OTHER -> v.t = "num"

\* the default of a constructor parameter that has one
CtorDefault(config, f) ==
    CASE f = "input_layer" -> NoneV
      [] f = "output_layer" -> NoneV
      [] f = "weights" -> Num(One)
      [] f = "name" -> IF config = KullbackLeiberDivergenceConfig
                       THEN Str("KullbackLeiberDivergence") ELSE NoneV
      [] f = "collect" -> Bool(TRUE)
      [] f = "epsilon" -> Num(1)
      [] f = "clip" -> Num(0)
      [] f = "clip_value_min" -> Num(0 - One)
      [] f = "clip_value_max" -> Num(One)
      [] f = "label_smoothing" -> Num(0)

\* the constructor parameters without a default
CtorRequired(config) ==
    IF config \in { CosineDistanceConfig, KullbackLeiberDivergenceConfig }
    THEN { "dim" } ELSE {}

UNKNOWN_VARIANT == "unknown_variant"
UNKNOWN_FIELD == "unknown_field"
FIELD_TYPE == "field_type"
TYPE_ERROR == "TypeError"

NoFields == [f \in {} |-> NoneV]
LossFailure(e, f) == [err |-> e, field |-> f, config |-> "", fields |-> NoFields]

\* the post_load make of a loss schema: Config(**data)
make(config, data) ==
    IF \E f \in CtorRequired(config) : f \notin DOMAIN data
    THEN LossFailure(TYPE_ERROR, CHOOSE f \in CtorRequired(config) : f \notin DOMAIN data)
    ELSE [err |-> "", field |-> "", config |-> config,
          fields |-> [f \in SchemaFields(config) |->
                        IF f \in DOMAIN data THEN data[f] ELSE CtorDefault(config, f)]]

(* Schema.load of a loss schema on a parameter mapping: the ways it can    *)
(* end.  An unknown key or a value of the wrong type is a validation       *)
(* error (which one is reported first is not fixed); otherwise the fields  *)
(* left out get their `missing` value, where one is declared, and make     *)
(* builds the config.                                                      *)
load(config, params) ==
    LET unknown == DOMAIN params \ SchemaFields(config)
        mistyped == { f \in DOMAIN params \cap SchemaFields(config) :
                        ~FieldAccepts(f, params[f]) }
        filled == { f \in SchemaFields(config) :
                        f \in DOMAIN params \/ HasMissing(config, f) }
        data == [f \in filled |->
                    IF f \in DOMAIN params THEN params[f] ELSE SchemaMissing(config, f)]
    IN  IF unknown \cup mistyped # {}
        THEN { LossFailure(UNKNOWN_FIELD, f) : f \in unknown }
                \cup { LossFailure(FIELD_TYPE, f) : f \in mistyped }
        ELSE { make(config, data) }

(* LossSchema's dispatch on a raw value: a bare identifier, or a mapping   *)
(* from one identifier to a parameter mapping.  A bare identifier, or an    *)
(* identifier with no parameters, is resolved by the class's constructor   *)
(* without arguments or by loading the empty parameter mapping.            *)
resolve(raw) ==
    IF raw.id \notin DOMAIN configs
    THEN { LossFailure(UNKNOWN_VARIANT, raw.id) }
    ELSE IF raw.form = "bare" \/ DOMAIN raw.params = {}
         THEN { make(configs[raw.id], NoFields) } \cup load(configs[raw.id], NoFields)
         ELSE load(configs[raw.id], raw.params)

----------------------------------------------------------------------------
(* Serialization of a loss config: the schema's dump, then the post_dump   *)
(* unmake, then the family's wrapping of the result under the identifier.  *)

\* BaseLossConfig.REDUCED_ATTRIBUTES
REDUCED_ATTRIBUTES == { "input_layer", "output_layer", "name" }

\* a value that is empty or unset
Empty(v) == v.t = "none" \/ (v.t = "str" /\ v.s = "")

\* Schema.dump: every declared field, read from the object's attribute
dump(config, fields) == [f \in SchemaFields(config) |-> fields[f]]

(* BaseConfig.remove_reduced_attrs: a reduced attribute that is empty or   *)
(* unset is dropped, every other field is kept.  A reduced attribute that  *)
(* holds a non-empty value equal to its constructor default may be         *)
(* dropped or kept.                                                        *)
remove_reduced_attrs(config, data) ==
    LET kept == { f \in DOMAIN data :
                    \/ f \notin REDUCED_ATTRIBUTES
                    \/ ~Empty(data[f]) /\ data[f] # CtorDefault(config, f) }
        either == { f \in (DOMAIN data) \cap REDUCED_ATTRIBUTES :
                    ~Empty(data[f]) /\ data[f] = CtorDefault(config, f) }
    IN  { Restrict(data, kept \cup S) : S \in SUBSET either }

\* a serialization that leaves the reduced attributes in
unmake_every_field(config, fields) ==
    { [form |-> "mapping", id |-> IDENTIFIER(config), params |-> dump(config, fields)] }

\* the raw forms an instance serializes to: a mapping under its identifier
unmake(config, fields) ==
    { [form |-> "mapping", id |-> IDENTIFIER(config), params |-> d] :
        d \in remove_reduced_attrs(config, dump(config, fields)) }

----------------------------------------------------------------------------
(* The inputs of the loss family. *)

\* the identifiers the documentation of the family lists
ListedIdentifiers ==
    { "AbsoluteDifference", "MeanSquaredError", "LogLoss", "HuberLoss",
      "ClippedDeltaLoss", "SoftmaxCrossEntropy", "SigmoidCrossEntropy", "HingeLoss",
      "CosineDistance", "PoissonLoss", "KullbackLeiberDivergence" }

LossIdentifiers == ListedIdentifiers \cup { "huberloss", "Momentum" }

ParamValues(f) ==
    CASE f = "input_layer" -> { Str("labels"), NoneV }
      [] f = "output_layer" -> { Str("dense_1") }
      [] f = "weights" -> { Num(Tenths(5)), Str("heavy") }
      [] f = "name" -> { Str("loss") }
      [] f = "collect" -> { Bool(FALSE) }
      [] f = "epsilon" -> { Num(Tenths(1)) }
      [] f = "clip" -> { Num(Tenths(2)) }
      [] f = "clip_value_min" -> { Num(0 - Tenths(8)) }
      [] f = "clip_value_max" -> { Num(Tenths(8)) }
      [] f = "label_smoothing" -> { Num(Tenths(1)) }
      [] f = "dim" -> { Num(3) }
      [] OTHER -> { Num(0) }

\* the fields a parameter mapping for the identifier draws from
ParamFields(id) ==
    (IF id \in DOMAIN configs THEN SchemaFields(configs[id]) ELSE BaseLossFields)
        \cup { "momentum" }

RECURSIVE ParamsOver(_)
ParamsOver(S) ==
    IF S = {} THEN { NoFields }
    ELSE LET f == CHOOSE x \in S : TRUE
         IN  { [x \in (DOMAIN d) \cup { f } |-> IF x = f THEN v ELSE d[x]] :
                    d \in ParamsOver(S \ { f }), v \in ParamValues(f) }

LossInputs ==
    { [form |-> "bare", id |-> id, params |-> NoFields] : id \in LossIdentifiers }
    \cup UNION { { [form |-> "mapping", id |-> id, params |-> ps] :
                        ps \in UNION { ParamsOver(S) : S \in KeySets(MaxParams, ParamFields(id)) } } :
                 id \in LossIdentifiers }

----------------------------------------------------------------------------
(* The state machine of the loss family: one selection is resolved. *)

Resolve(raw) ==
    /\ \E r \in resolve(raw) :
        loss' = [op |-> "make", form |-> raw.form, id |-> raw.id, params |-> raw.params,
                 err |-> r.err, field |-> r.field, config |-> r.config,
                 fields |-> r.fields, out |-> NoRaw]
    /\ UNCHANGED << objs, last >>

\* the instance resolved is serialized back to its raw form
Serialize ==
    /\ loss.op = "make"
    /\ loss.err = ""
    /\ \E o \in unmake(loss.config, loss.fields) :
        loss' = [loss EXCEPT !.op = "unmake", !.out = o]
    /\ UNCHANGED << objs, last >>

Select ==
    /\ loss = NoLoss
    /\ \E raw \in LossInputs : Resolve(raw)

NextLoss ==
    \/ Select
    \/ Serialize

SpecLoss == Init /\ [][NextLoss]_vars

----------------------------------------------------------------------------
(* What the claims are stated over. *)

\* the last call ran cls(values), with cls = last.cls and values = last.values
Ran == last.values # << >>
\* rhea.read gave that run a merged document
Readable == Ran /\ ~MergeFails(last.values)
\* the merged document of that run
Data == MergeDocs(last.values)

SectionErrors == { UNEXPECTED_SECTION, UNSUPPORTED_SECTION, MISSING_REQUIRED }
HasIllegalSection(cls, data) == DOMAIN data \ Range(POSSIBLE_SECTIONS(cls)) # {}

----------------------------------------------------------------------------
(* C1 *)

(* C1 as stated: a document missing `version` or `kind` fails with the     *)
(* missing-header error of the key it lacks (either one when it lacks      *)
(* both), and no section-shape check has run.                              *)
C1_MissingHeaderAsStated ==
    Readable =>
        /\ (VERSION \notin DOMAIN Data /\ KIND \in DOMAIN Data)
                => last.err = MISSING_VERSION
        /\ (KIND \notin DOMAIN Data /\ VERSION \in DOMAIN Data)
                => last.err = MISSING_KIND
        /\ (VERSION \notin DOMAIN Data /\ KIND \notin DOMAIN Data)
                => last.err \in { MISSING_VERSION, MISSING_KIND }

(* C1 amended: a document missing `version` fails with the missing-version *)
(* error; a document that has `version` and lacks `kind` fails with the    *)
(* missing-kind error when its version is supported and with the           *)
(* unsupported-version error otherwise; in each case no section-shape      *)
(* check has run, whatever sections the document holds.                    *)
C1_MissingHeaderBeforeShape ==
    (Readable /\ (VERSION \notin DOMAIN Data \/ KIND \notin DOMAIN Data)) =>
        /\ last.err =
             IF VERSION \notin DOMAIN Data THEN MISSING_VERSION
             ELSE IF Data[VERSION] < MIN_VERSION \/ Data[VERSION] > MAX_VERSION
                  THEN UNSUPPORTED_VERSION
                  ELSE MISSING_KIND
        /\ last.err \notin SectionErrors
        /\ last.stages = << "Merged" >>
        /\ last.ret = 0

\* a document with a supported version, no kind and an illegal section was refused
C1_Witness ==
    /\ Readable
    /\ last.op = "construct"
    /\ VERSION \in DOMAIN Data
    /\ KIND \notin DOMAIN Data
    /\ HasIllegalSection(last.cls, Data)
    /\ last.err = MISSING_KIND

----------------------------------------------------------------------------
(* C2 *)

(* C2: the version check accepts a document with version v if and only if  *)
(* v = 1; every other version fails with the unsupported-version error.    *)
C2_VersionBoundary ==
    (Readable /\ VERSION \in DOMAIN Data) =>
        /\ MIN_VERSION = 1 /\ MAX_VERSION = 1
        /\ (Data[VERSION] = 1) <=> (last.err \notin { MISSING_VERSION, UNSUPPORTED_VERSION })
        /\ (Data[VERSION] # 1) => last.err = UNSUPPORTED_VERSION

\* version 0 and version 2 are both offered; here version 2 was refused
C2_Witness ==
    /\ Readable
    /\ VERSION \in DOMAIN Data
    /\ Data[VERSION] = 2
    /\ last.err = UNSUPPORTED_VERSION

----------------------------------------------------------------------------
(* C3 *)

VersionPasses == Readable /\ VERSION \in DOMAIN Data /\ Data[VERSION] = 1

(* C3: with a valid version, a kind of the closed set that is not the      *)
(* class's kind fails with the kind-mismatch error, and a kind outside the *)
(* closed set fails with the unsupported-kind error (never the mismatch).  *)
C3_KindErrors ==
    (VersionPasses /\ KIND \in DOMAIN Data) =>
        /\ KINDS = { "experiment", "group", "job", "notebook", "tensorboard", "build" }
        /\ (Data[KIND] \in KINDS /\ Data[KIND] # SPEC_KIND(last.cls))
                => (last.err = KIND_MISMATCH /\ last.key = Data[KIND])
        /\ (Data[KIND] \notin KINDS)
                => (last.err = UNSUPPORTED_KIND /\ last.key = Data[KIND])
        /\ (Data[KIND] = SPEC_KIND(last.cls))
                => last.err \notin { UNSUPPORTED_KIND, KIND_MISMATCH }

\* a notebook document was refused by the class bound to build
C3_Witness ==
    /\ VersionPasses
    /\ KIND \in DOMAIN Data
    /\ Data[KIND] = NOTEBOOK
    /\ SPEC_KIND(last.cls) = KBUILD
    /\ last.err = KIND_MISMATCH

----------------------------------------------------------------------------
(* C4 *)

HeaderPasses ==
    /\ VersionPasses
    /\ KIND \in DOMAIN Data
    /\ Data[KIND] = SPEC_KIND(last.cls)

(* C4: with a valid version and the matching kind, a document holding a    *)
(* section outside the class's possible sections fails with a section      *)
(* error that names a section of the document outside the possible         *)
(* sections: the unexpected-section error for a key outside SECTIONS (the  *)
(* error raised whenever the document holds such a key), the unsupported-  *)
(* section error for a key of SECTIONS.                                    *)
C4_IllegalSection ==
    (HeaderPasses /\ HasIllegalSection(last.cls, Data)) =>
        /\ last.err \in { UNEXPECTED_SECTION, UNSUPPORTED_SECTION }
        /\ last.key \in DOMAIN Data
        /\ last.key \notin Range(POSSIBLE_SECTIONS(last.cls))
        /\ (last.err = UNEXPECTED_SECTION) <=> (last.key \notin Range(SECTIONS))
        /\ (DOMAIN Data \ Range(SECTIONS) # {}) => last.err = UNEXPECTED_SECTION
        /\ last.ret = 0

\* a document with a key outside SECTIONS and a section illegal for the kind
C4_Witness ==
    /\ HeaderPasses
    /\ DOMAIN Data \ Range(SECTIONS) # {}
    /\ RUN \in DOMAIN Data
    /\ last.err = UNEXPECTED_SECTION
    /\ last.key \notin Range(SECTIONS)

----------------------------------------------------------------------------
(* C5 *)

\* the valid minimal documents of a class: the header, and a build section
\* where the class wants one
MinimalDocs(cls) ==
    LET header == Extend(Extend(EmptyDoc, VERSION, 1), KIND, SPEC_KIND(cls))
    IN  IF cls = NotebookSpecification
        THEN { Extend(header, BUILD, Plain(1)) }
        ELSE { header, Extend(header, BUILD, Plain(1)) }

(* C5: construction from a valid minimal document of the class's kind      *)
(* succeeds, and every specification built has the kind of its class and a *)
(* version between MIN_VERSION and MAX_VERSION.                             *)
C5_MinimalDocuments ==
    /\ (/\ Readable
        /\ last.cls \in { BaseRunSpecification, NotebookSpecification }
        /\ Data \in MinimalDocs(last.cls))
            => (last.err = "" /\ last.ret \in 1..Len(objs) /\ objs[last.ret].data = Data)
    /\ \A i \in 1..Len(objs) :
        /\ objs[i].headers[KIND] = SPEC_KIND(objs[i].cls)
        /\ objs[i].headers[KIND] \in KINDS
        /\ MIN_VERSION <= objs[i].headers[VERSION]
        /\ objs[i].headers[VERSION] <= MAX_VERSION

\* a specification was built from a minimal document
C5_Witness ==
    /\ Readable
    /\ last.op = "construct"
    /\ last.cls = BaseRunSpecification
    /\ Data \in MinimalDocs(last.cls)
    /\ last.err = ""
    /\ objs[last.ret].headers[KIND] = KBUILD

----------------------------------------------------------------------------
(* C6 *)

(* C6 as stated: a patch that succeeds returns a specification whose       *)
(* merged document is merge(A, B), A being the merged document of the      *)
(* specification patched and B the source given, B's keys overriding.      *)
C6_PatchMergesOriginalDocument ==
    (last.op = "patch" /\ last.err = "") =>
        objs[last.ret].data = Override(objs[last.arg].data, last.values[2].doc)

----------------------------------------------------------------------------
(* C7 *)

(* C7: a patch call, whether it succeeds or fails, leaves the              *)
(* specification patched exactly as it was (values, merged data, headers,  *)
(* parsed data, config), and the specification it returns is another       *)
(* instance, built by the call.                                            *)
C7_PatchNeverMutates ==
    [][ last'.op = "patch" =>
            /\ last'.arg \in 1..Len(objs)
            /\ objs'[last'.arg] = objs[last'.arg]
            /\ last'.err = "" => (last'.ret # last'.arg /\ last'.fresh)
            /\ last'.err # "" => objs' = SubSeq(objs, 1, last'.arg) ]_vars

\* a patch returned a specification whose document differs from the original's
C7_Witness ==
    /\ last.op = "patch"
    /\ last.err = ""
    /\ objs[last.ret].data # objs[last.arg].data
    /\ objs[last.arg].values # objs[last.ret].values

----------------------------------------------------------------------------
(* C8 *)

(* C8 as stated: read hands back the object it is given exactly when that  *)
(* object is a specification of the kind the class is bound to.            *)
C8_ReadSameIffBoundKind ==
    (last.op = "read" /\ last.arg # 0) =>
        ((last.ret = last.arg /\ ~last.fresh)
            <=> objs[last.arg].headers[KIND] = SPEC_KIND(last.cls))

(* C8 amended: read hands back the very object it is given, running no     *)
(* check, exactly when the object is an instance of the class read is      *)
(* called on or of a subclass of it, whatever kind that object is bound    *)
(* to; in every other case it runs cls(value), which fails with a          *)
(* configuration error for a specification of another class and builds a  *)
(* new instance when it succeeds.  Reading what read returned gives the    *)
(* same object back.                                                       *)
C8_ReadSameIffInstance ==
    (last.op = "read") =>
        /\ last.arg # 0 =>
             IF last.cls \in Mro(objs[last.arg].cls)
             THEN /\ last.ret = last.arg
                  /\ ~last.fresh
                  /\ last.err = ""
                  /\ ~Ran
                  /\ last.stages = << >>
             ELSE /\ last.values = << SpecObject(last.arg) >>
                  /\ last.err = CONFIGURATION_ERROR
                  /\ last.ret = 0
        /\ last.arg = 0 => (Ran /\ (last.err = "" <=> last.fresh))
        /\ last.err = "" =>
             \A r \in read(objs, last.cls, SpecObject(last.ret)) :
                 r.ret = last.ret /\ ~r.fresh /\ r.objs = objs

\* the base class handed back a specification bound to another kind
C8_Witness ==
    /\ last.op = "read"
    /\ last.arg # 0
    /\ last.ret = last.arg
    /\ objs[last.arg].cls # last.cls
    /\ objs[last.arg].headers[KIND] # SPEC_KIND(last.cls)

----------------------------------------------------------------------------
(* C9 *)

(* C9 as stated: each identifier the family lists resolves to an instance  *)
(* of the variant of that same identifier (never the unknown-variant       *)
(* error), identifiers are told apart by case, and every other identifier  *)
(* fails with the unknown-variant error.                                   *)
C9_RegistryAsListed ==
    loss.op = "make" =>
        /\ loss.id \in ListedIdentifiers =>
             /\ loss.err # UNKNOWN_VARIANT
             /\ loss.err = "" => IDENTIFIER(loss.config) = loss.id
        /\ loss.id \notin ListedIdentifiers =>
             (loss.err = UNKNOWN_VARIANT /\ loss.field = loss.id)

----------------------------------------------------------------------------
(* C10 *)

(* C10 as stated: a selection that resolves gives an instance of the       *)
(* variant named, in which every field supplied has the value supplied and *)
(* every field left out has its declared default: weights 1.0, collect     *)
(* true, epsilon 1e-7, clip 0, label_smoothing 0, clip_value_min -1,       *)
(* clip_value_max 1.                                                       *)
C10_DefaultsAsDeclared ==
    (loss.op = "make" /\ loss.err = "") =>
        LET declared(f) ==
                CASE f = "weights" -> Num(One)
                  [] f = "collect" -> Bool(TRUE)
                  [] f = "epsilon" -> Num(1)
                  [] f = "clip" -> Num(0)
                  [] f = "label_smoothing" -> Num(0)
                  [] f = "clip_value_min" -> Num(0 - One)
                  [] f = "clip_value_max" -> Num(One)
            hasDeclared == { "weights", "collect", "epsilon", "clip", "label_smoothing",
                             "clip_value_min", "clip_value_max" }
        IN  /\ IDENTIFIER(loss.config) = loss.id
            /\ \A f \in DOMAIN loss.params : loss.fields[f] = loss.params[f]
            /\ \A f \in (DOMAIN loss.fields \cap hasDeclared) \ DOMAIN loss.params :
                    loss.fields[f] = declared(f)

----------------------------------------------------------------------------
(* C11 *)

\* the variants whose constructor takes dim without a default
DimVariants == { "CosineDistance", "KullbackLeiberDivergence" }

\* the errors of the variant dispatch and of the schema validation
StructuredErrors == { UNKNOWN_VARIANT, UNKNOWN_FIELD, FIELD_TYPE, "missing_required_field" }

(* C11 as stated: selecting CosineDistance or KullbackLeiberDivergence     *)
(* without dim, by the bare name or by a mapping of otherwise valid        *)
(* parameters, fails with a structured error naming dim, never with an     *)
(* untyped failure of the constructor; with dim = 3 it gives an instance   *)
(* whose dim is 3.                                                         *)
C11_MissingDimIsStructuredError ==
    (/\ loss.op = "make"
     /\ loss.id \in DimVariants
     /\ \A f \in DOMAIN loss.params :
            f \in SchemaFields(configs[loss.id]) /\ FieldAccepts(f, loss.params[f])) =>
        IF "dim" \in DOMAIN loss.params
        THEN loss.err = "" /\ loss.fields["dim"] = loss.params["dim"]
        ELSE loss.err \in StructuredErrors /\ loss.field = "dim"

----------------------------------------------------------------------------
(* C12 *)

\* the raw selection that was resolved
Raw == [form |-> loss.form, id |-> loss.id, params |-> loss.params]

\* the raw selection gives the reduced fields it supplies a value that is
\* neither empty nor the field's default
ReducedSuppliedNonDefault ==
    \A f \in (DOMAIN loss.params) \cap REDUCED_ATTRIBUTES :
        ~Empty(loss.params[f]) /\ loss.params[f] # CtorDefault(loss.config, f)

\* every field of the instance holds its constructor default
AllFieldsDefault ==
    \A f \in (DOMAIN loss.fields) \ CtorRequired(loss.config) :
        loss.fields[f] = CtorDefault(loss.config, f)

SuppliesAllEmitted ==
    /\ loss.form = "mapping"
    /\ SchemaFields(loss.config) \ REDUCED_ATTRIBUTES \subseteq DOMAIN loss.params
    /\ \A f \in REDUCED_ATTRIBUTES :
            ~Empty(CtorDefault(loss.config, f)) => f \in DOMAIN loss.params

----------------------------------------------------------------------------
(* C13 *)

\* the build configuration handed in is a BuildConfig or a mapping BuildConfig reads
BuildInputAccepted ==
    \/ last.input.kind = "config"
    \/ last.input.kind = "mapping" /\ ~from_dict_fails(last.input.val)

(* C13: create_specification on a BuildConfig or a raw build mapping makes *)
(* the document with exactly the keys version, kind and build, version 1,  *)
(* the kind the class is bound to, and the minimal raw form of the build   *)
(* configuration as build; that document passes the class's version,      *)
(* kind and section checks; with to_dict it is returned and nothing is     *)
(* constructed, otherwise the specification resolved from it is returned.  *)
(* A build configuration of another type fails with a configuration error  *)
(* and nothing is returned.                                                *)
C13_CreateSpecification ==
    last.op = "create_specification" =>
        /\ BuildInputAccepted =>
              /\ DOMAIN last.doc = { VERSION, KIND, BUILD }
              /\ last.doc[VERSION] = 1
              /\ last.doc[KIND] = SPEC_KIND(last.cls)
              /\ last.doc[BUILD] = Plain(last.input.val.xs[1])
              /\ check_data(last.cls, last.doc, FALSE, EmptyDoc) = { NoError }
              /\ last.err = ""
              /\ last.input.to_dict => (~Ran /\ last.ret = 0 /\ objs = << >>)
              /\ ~last.input.to_dict =>
                    /\ last.values = << Mapping(last.doc) >>
                    /\ last.fresh
                    /\ objs[last.ret].cls = last.cls
                    /\ objs[last.ret].data = last.doc
        /\ last.input.kind = "other" =>
              /\ last.err = CONFIGURATION_ERROR
              /\ last.doc = EmptyDoc
              /\ last.ret = 0
              /\ objs = << >>

\* the notebook class resolved a specification from a raw mapping with extra attributes
C13_Witness ==
    /\ last.op = "create_specification"
    /\ last.cls = NotebookSpecification
    /\ last.input.kind = "mapping"
    /\ last.input.val.t = "extra"
    /\ ~last.input.to_dict
    /\ last.err = ""
    /\ objs[last.ret].headers[KIND] = NOTEBOOK

----------------------------------------------------------------------------
(* C14 *)

\* the specification the last call built
Built == objs[last.ret]

----------------------------------------------------------------------------
(* C15 *)

\* the errors of the version and kind checks
HeaderErrors ==
    { MISSING_VERSION, UNSUPPORTED_VERSION, MISSING_KIND, UNSUPPORTED_KIND, KIND_MISMATCH }

\* the stages of a construction that goes through, in the order the code runs them
FullStages(cls) ==
    << "Merged", "HeaderChecked", "ShapeChecked", "HeadersValidated", "SectionsParsed",
       IF CONFIG(cls) THEN "ConfigBuilt" ELSE "SectionsValidated", "Resolved" >>

(* C15 as stated: header validation, the header sections included, is      *)
(* complete before the section-shape check starts, so a document with a    *)
(* header section its schema rejects never gets as far as a section-shape  *)
(* error.                                                                  *)
C15_HeaderSectionsBeforeShape ==
    (Readable /\ HeadersInvalid(get_headers(last.cls, Data))) =>
        last.err \notin SectionErrors

(* C15 amended: a construction runs its stages once each, in the order     *)
(* merge, version and kind checks, section-shape check, validation of the  *)
(* header sections, parsing, config build or section validation, extra     *)
(* validation; it stops at the first stage that fails and returns no       *)
(* object then.  A merge failure is a configuration error.  The header     *)
(* sections are validated only after the shape check has passed, so an     *)
(* illegal section is reported whatever the header sections hold.          *)
C15_StagesInCodeOrder ==
    Ran =>
        /\ Len(last.stages) <= Len(FullStages(last.cls))
        /\ last.stages = SubSeq(FullStages(last.cls), 1, Len(last.stages))
        /\ last.err = "" <=> last.stages = FullStages(last.cls)
        /\ last.err = "" <=> (last.fresh /\ last.ret # 0)
        /\ last.err # "" => (last.ret = 0 /\ \A i \in 1..Len(objs) : objs[i] # NoObject)
        /\ ~Readable <=> last.stages = << >>
        /\ ~Readable => last.err = CONFIGURATION_ERROR
        /\ Readable =>
              /\ last.err \in HeaderErrors <=> Len(last.stages) = 1
              /\ last.err \in SectionErrors <=> Len(last.stages) = 2
              /\ (HeaderPasses /\ HasIllegalSection(last.cls, Data)) =>
                    last.err \in SectionErrors
              /\ Len(last.stages) = 3 =>
                    (HeadersInvalid(get_headers(last.cls, Data))
                        /\ ~HasIllegalSection(last.cls, Data))
              /\ Len(last.stages) = 5 => SectionsInvalid(Parse(last.cls, Data))

\* a document with a rejected header section and an illegal section failed the shape check
C15_Witness ==
    /\ Readable
    /\ HeadersInvalid(get_headers(last.cls, Data))
    /\ HasIllegalSection(last.cls, Data)
    /\ last.err \in SectionErrors
    /\ last.stages = << "Merged", "HeaderChecked" >>

----------------------------------------------------------------------------
(* C16 *)

\* the first key of S in the declared order of SECTIONS
FirstInCatalog(S) ==
    SECTIONS[CHOOSE i \in 1..Len(SECTIONS) :
                /\ SECTIONS[i] \in S
                /\ \A j \in 1..(i - 1) : SECTIONS[j] \notin S]

(* C16 as stated: when the section-shape check meets a document with an    *)
(* illegal section it reports an illegal section, not a missing required   *)
(* one; the section it reports is the same every time the document is      *)
(* checked, and of several sections unsupported for the kind it is the     *)
(* first in the declared order of the catalog.                             *)
C16_FixedScanOrder ==
    (Readable /\ HeaderPasses /\ HasIllegalSection(last.cls, Data)) =>
        /\ last.err \in { UNEXPECTED_SECTION, UNSUPPORTED_SECTION }
        /\ \A o \in init(last.cls, last.values) :
              o.err = last.err /\ o.key = last.key
        /\ last.err = UNSUPPORTED_SECTION =>
              last.key = FirstInCatalog(DOMAIN Data \ Range(POSSIBLE_SECTIONS(last.cls)))

----------------------------------------------------------------------------
(* C17 *)

(* C17: for every specification class, the required sections are among    *)
(* the possible sections and the possible sections among SECTIONS, which   *)
(* holds exactly the eleven keys version, kind, tags, backend, framework,  *)
(* environment, declarations, logging, hptuning, build, run; so the        *)
(* merged document of a specification that was built holds every required  *)
(* section and possible sections only.                                     *)
C17_SectionContract ==
    /\ Range(SECTIONS) =
            { "version", "kind", "tags", "backend", "framework", "environment",
              "declarations", "logging", "hptuning", "build", "run" }
    /\ Len(SECTIONS) = Cardinality(Range(SECTIONS))
    /\ \A cls \in Classes \cup { BuildSpecification } :
          /\ Range(REQUIRED_SECTIONS(cls)) \subseteq Range(POSSIBLE_SECTIONS(cls))
          /\ Range(POSSIBLE_SECTIONS(cls)) \subseteq Range(SECTIONS)
    /\ (Ran /\ last.err = "") =>
          /\ Range(REQUIRED_SECTIONS(last.cls)) \subseteq DOMAIN Built.data
          /\ DOMAIN Built.data \subseteq Range(POSSIBLE_SECTIONS(last.cls))

\* a run specification was built from the required sections and two more possible ones
C17_Witness ==
    /\ Ran
    /\ last.err = ""
    /\ last.cls = BaseRunSpecification
    /\ DOMAIN Built.data = { VERSION, KIND, BACKEND, ENVIRONMENT }

----------------------------------------------------------------------------
(* C18 *)

(* C18: a specification that was built holds the parsed sections in        *)
(* parsed_data; when its class declares a config type, the config is built *)
(* from a copy of them and the sections are not validated separately,      *)
(* otherwise the config stays absent and the sections are validated; and   *)
(* a later change to the parsed sections leaves the config as it was,      *)
(* and a change to the config's mapping leaves the parsed sections as they *)
(* were.                                                                   *)
C18_ConfigFromDeepCopy ==
    /\ []((Ran /\ last.err = "") =>
            /\ Built.parsed_data = Parse(last.cls, Built.data)
            /\ CONFIG(last.cls) =>
                  /\ Built.config.set
                  /\ Built.config.data = Built.parsed_data
                  /\ ~Built.validated
            /\ ~CONFIG(last.cls) => (Built.config = NoConfig /\ Built.validated))
    /\ [][ last'.op = "mutate" =>
              /\ last'.key = "parsed_data" =>
                    /\ objs'[last'.arg].config = objs[last'.arg].config
                    /\ objs'[last'.arg].parsed_data # objs[last'.arg].parsed_data
              /\ last'.key = "config" =>
                    /\ objs'[last'.arg].parsed_data = objs[last'.arg].parsed_data
                    /\ objs'[last'.arg].config # objs[last'.arg].config ]_vars

\* the parsed sections of a notebook specification were changed and its config was not
C18_Witness ==
    /\ last.op = "mutate"
    /\ last.key = "parsed_data"
    /\ objs[last.arg].cls = NotebookSpecification
    /\ objs[last.arg].config.set
    /\ objs[last.arg].config.data # objs[last.arg].parsed_data
    /\ objs[last.arg].config.data = Parse(NotebookSpecification, objs[last.arg].data)

----------------------------------------------------------------------------
(* C19 *)

(* C19 as stated: check_data(data) applies the version, kind, kind-match   *)
(* and section checks to the mapping it is given, so it ends as those      *)
(* checks end on that mapping; given the empty mapping it fails with the   *)
(* missing-version error.                                                  *)
C19_ChecksTheDocumentGiven ==
    (last.op = "check_data" /\ last.input.kind = "data") =>
        /\ \E e \in check_data(last.cls, last.doc, FALSE, EmptyDoc) :
              e.err = last.err /\ e.key = last.key
        /\ last.doc = EmptyDoc => last.err = MISSING_VERSION

====
